---- MODULE Spec2Model ----
(***************************************************************************)
(* Model of bash/__init__.py: the Bash class, a supervisor of one bash     *)
(* child process, driven by a single caller that polls it.                 *)
(*                                                                         *)
(* The caller executes the methods statement by statement (pc names the    *)
(* source line about to run); between any two statements the child may     *)
(* write output or exit and the wall clock may advance.                    *)
(*                                                                         *)
(* Optional values (Python None) are sequences: <<>> is None, <<v>> is v.  *)
(* Return values are the strings "True", "False" and "None".               *)
(* stdout and stderr are requested as PIPE; captured text is modelled by   *)
(* its length, 0 being str().                                              *)
(*                                                                         *)
(* Spec: one caller using the constructor and the four methods.            *)
(* SpecRun: the caller uses run() only.                                    *)
(* SpecGroup: the command forks descendants into its process group.        *)
(* SpecThreads: two threads call is_complete() and kill().                 *)
(***************************************************************************)
EXTENDS Integers, Sequences, FiniteSets, TLC

\* ---------------------------------------------------------------- bounds
MaxClock == 3
MaxOut == 1
MaxDesc == 1
MaxClockThreads == 1

\* ------------------------------------------------------ module constants
_S_RUN == "running"
_S_COMPLETE == "completed"
_S_TIMEOUT == "timeout"
_S_KILL == "killed"
_D_E_CODES == {0}
_L_MAX_TIME == 60 * 60 * 24 * 2

NoInstance == "noinstance"
Terminal == {_S_COMPLETE, _S_TIMEOUT, _S_KILL}
SIGKILL == 9

\* ------------------------------------------------------ inputs
\* m_time arguments: None, negative, zero, small, the limit, above the limit
MTimeArgs == {<<>>, <<-1>>, <<0>>, <<1>>, <<2>>, <<_L_MAX_TIME>>, <<_L_MAX_TIME + 1>>}
\* e_codes arguments
ECodeArgs == {_D_E_CODES, {0, 7}}
\* stdin arguments: the three sentinels, or a literal payload
StdinArgs == {"None", "PIPE", "DEVNULL", "literal"}
\* exit statuses a command can end with on its own
ExitCodes == {0, 7}

VARIABLES
    now,        \* wall clock, time.time()
    child,      \* "unspawned", "alive", "zombie" (exited, not reaped), "reaped"
    x_code,     \* the child's real exit status, <<>> while it lives
    x_time,     \* clock reading when the child died, <<>> while it lives
    out, err,   \* text the child has written to its stdout / stderr pipe
    grp,        \* live descendants of the child in its process group (line 113)
    status, code, e_codes, s_time, e_time, m_time, stdout, stderr,  \* Bash attributes
    pc,         \* the caller's position: "new", "idle", or a source line
    op,         \* the method the caller is in, or was in last
    st0,        \* status when that method was entered
    ret,        \* what that method returned
    r,          \* result of the inner is_complete() call
    l_code,     \* local 'code' of is_complete (line 151)
    l_now,      \* the time.time() reading of line 157
    polled,     \* the current method call has polled the child
    sigsent,    \* _process.kill() has been called
    kcalled,    \* kill() has been called
    logs,       \* number of records _log has appended
    other       \* the suspended context of a second thread using the instance

envVars == <<now, child, x_code, x_time, out, err, grp>>
attrVars == <<status, code, e_codes, s_time, e_time, m_time, stdout, stderr>>
callVars == <<pc, op, st0, ret, r, l_code, l_now, polled, sigsent, kcalled, logs, other>>
vars == <<now, child, x_code, x_time, out, err, grp,
          status, code, e_codes, s_time, e_time, m_time, stdout, stderr,
          pc, op, st0, ret, r, l_code, l_now, polled, sigsent, kcalled, logs,
          other>>

\* ------------------------------------------------------ pure pieces of code

\* line 138: m_time if m_time is not None else _L_MAX_TIME
StoredMTime(m) == IF m # <<>> THEN m[1] ELSE _L_MAX_TIME

\* line 149: self.status != _S_RUN
AlreadyTerminal_Never == FALSE
AlreadyTerminal == status # _S_RUN

\* line 151: Popen.poll(): the exit status once the child has exited, else None
Poll == IF child = "alive" THEN <<>> ELSE x_code

\* line 157: time.time() - self.s_time > self.m_time
DeadlineExceeded_Always(t) == TRUE
DeadlineExceeded_Before(t) == t - s_time < m_time
DeadlineExceeded_OrEqual(t) == t - s_time >= m_time
DeadlineExceeded(t) == t - s_time > m_time

\* line 169: self.is_complete() and self.status == _S_TIMEOUT
IsTimeoutResult(rr) == IF rr /\ status = _S_TIMEOUT THEN "True" ELSE "False"

\* line 173: None if not self.is_complete() else self.code in self.e_codes
CodeInECodes == code # <<>> /\ code[1] \in e_codes
CheckCodeResult_NoCheck(rr) == IF ~rr THEN "None" ELSE "True"
CheckCodeResult(rr) == IF ~rr THEN "None"
                       ELSE IF CodeInECodes THEN "True" ELSE "False"

\* line 177: if not self.is_complete()
KillGuard_Always(rr) == TRUE
KillGuard_Never(rr) == FALSE
KillGuard(rr) == ~rr

\* ------------------------------------------------------ initial state
Init ==
    /\ now = 0
    /\ child = "unspawned" /\ x_code = <<>> /\ x_time = <<>>
    /\ out = 0 /\ err = 0 /\ grp = 0
    /\ status = NoInstance /\ code = <<>> /\ e_codes = {} /\ s_time = 0
    /\ e_time = <<>> /\ m_time = 0 /\ stdout = 0 /\ stderr = 0
    /\ pc = "new" /\ op = "none" /\ st0 = NoInstance /\ ret = "None"
    /\ r = FALSE /\ l_code = <<>> /\ l_now = <<>>
    /\ polled = FALSE /\ sigsent = FALSE /\ kcalled = FALSE /\ logs = 0
    /\ other = [pc |-> "idle", op |-> "none", st0 |-> NoInstance,
                ret |-> "None", r |-> FALSE, l_code |-> <<>>, l_now |-> <<>>,
                polled |-> FALSE]

\* ------------------------------------------------------ the environment

\* the wall clock advances
Tick ==
    /\ now < MaxClock
    /\ now' = now + 1
    /\ UNCHANGED <<child, x_code, x_time, out, err, grp>>
    /\ UNCHANGED attrVars /\ UNCHANGED callVars

\* the command writes to its stdout
ChildWriteOut ==
    /\ child = "alive" /\ out < MaxOut
    /\ out' = out + 1
    /\ UNCHANGED <<now, child, x_code, x_time, err, grp>>
    /\ UNCHANGED attrVars /\ UNCHANGED callVars

\* the command writes to its stderr
ChildWriteErr ==
    /\ child = "alive" /\ err < MaxOut
    /\ err' = err + 1
    /\ UNCHANGED <<now, child, x_code, x_time, out, grp>>
    /\ UNCHANGED attrVars /\ UNCHANGED callVars

\* the command exits on its own
ChildExit ==
    /\ child = "alive"
    /\ \E c \in ExitCodes : x_code' = <<c>>
    /\ x_time' = <<now>>
    /\ child' = "zombie"
    /\ UNCHANGED <<now, out, err, grp>>
    /\ UNCHANGED attrVars /\ UNCHANGED callVars

\* the shell forks a descendant, which stays in the shell's process group
\* (line 113) and does not hold the shell's stdout / stderr pipes
ChildFork ==
    /\ child = "alive" /\ grp < MaxDesc
    /\ grp' = grp + 1
    /\ UNCHANGED <<now, child, x_code, x_time, out, err>>
    /\ UNCHANGED attrVars /\ UNCHANGED callVars

\* a descendant exits on its own
DescExit ==
    /\ grp > 0
    /\ grp' = grp - 1
    /\ UNCHANGED <<now, child, x_code, x_time, out, err>>
    /\ UNCHANGED attrVars /\ UNCHANGED callVars

\* ------------------------------------------------------ Bash.__init__
\* lines 115-139, the spawn succeeding
Construct ==
    /\ pc = "new"
    /\ \E m \in MTimeArgs, ec \in ECodeArgs :
          /\ m_time' = StoredMTime(m)
          /\ e_codes' = ec
    /\ child' = "alive"
    /\ stdout' = 0 /\ stderr' = 0
    /\ code' = <<>>
    /\ s_time' = now
    /\ e_time' = <<>>
    /\ status' = _S_RUN
    /\ pc' = "idle"
    /\ UNCHANGED <<now, x_code, x_time, out, err, grp>>
    /\ UNCHANGED <<op, st0, ret, r, l_code, l_now, polled, sigsent, kcalled, logs, other>>

\* lines 120-123 and 127-128: Popen raises, __init__ raises BashError
ConstructSpawnFails ==
    /\ pc = "new"
    /\ pc' = "raised"
    /\ UNCHANGED envVars /\ UNCHANGED attrVars
    /\ UNCHANGED <<op, st0, ret, r, l_code, l_now, polled, sigsent, kcalled, logs, other>>

\* lines 124-128: the child is spawned, writing or closing the literal
\* stdin payload raises, __init__ raises BashError
ConstructWriteFails ==
    /\ pc = "new"
    /\ \E si \in StdinArgs : si \notin {"None", "PIPE", "DEVNULL"}
    /\ child' = "alive"
    /\ pc' = "raised"
    /\ UNCHANGED <<now, x_code, x_time, out, err, grp>> /\ UNCHANGED attrVars
    /\ UNCHANGED <<op, st0, ret, r, l_code, l_now, polled, sigsent, kcalled, logs, other>>

\* ------------------------------------------------------ the Popen handle

\* Popen.kill(): SIGKILL to the child's pid if it has not been reaped; the
\* signal goes to that one process, the rest of its group is not signalled
ProcessKill ==
    IF child = "alive"
    THEN child' = "zombie" /\ x_code' = <<-SIGKILL>> /\ x_time' = <<now>>
    ELSE UNCHANGED <<child, x_code, x_time>>

\* Popen.wait(): blocks until the child has exited, then reaps it
ProcessWait ==
    /\ child # "alive"
    /\ child' = "reaped"

\* Popen.communicate(): reads both pipes to end of file, then waits
ProcessCommunicate ==
    /\ child # "alive"
    /\ child' = "reaped"
    /\ stdout' = out
    /\ stderr' = err

\* ------------------------------------------------------ the caller's calls

Enter(name) ==
    /\ pc = "idle"
    /\ op' = name
    /\ st0' = status
    /\ polled' = FALSE
    /\ pc' = "ic149"
    /\ UNCHANGED envVars /\ UNCHANGED attrVars
    /\ UNCHANGED <<ret, r, l_code, l_now, sigsent, logs, other>>

CallIsComplete == Enter("is_complete") /\ UNCHANGED kcalled
\* line 169 calls is_complete first
CallIsTimeout == Enter("is_timeout") /\ UNCHANGED kcalled
\* line 173 calls is_complete first
CallCheckCode == Enter("check_code") /\ UNCHANGED kcalled
\* line 177 calls is_complete first
CallKill == Enter("kill") /\ kcalled' = TRUE

\* ------------------------------------------------------ Bash.is_complete

\* lines 149-150
Ic149 ==
    /\ pc = "ic149"
    /\ IF AlreadyTerminal
       THEN r' = TRUE /\ pc' = "ret"
       ELSE r' = r /\ pc' = "ic151"
    /\ UNCHANGED envVars /\ UNCHANGED attrVars
    /\ UNCHANGED <<op, st0, ret, l_code, l_now, polled, sigsent, kcalled, logs, other>>

\* lines 151-152: code = self._process.poll(); if code is not None
Ic151 ==
    /\ pc = "ic151"
    /\ l_code' = Poll
    /\ l_now' = <<>>
    /\ child' = IF child = "zombie" THEN "reaped" ELSE child
    /\ polled' = TRUE
    /\ pc' = IF Poll # <<>> THEN "ic153" ELSE "ic157"
    /\ UNCHANGED <<now, x_code, x_time, out, err, grp>> /\ UNCHANGED attrVars
    /\ UNCHANGED <<op, st0, ret, r, sigsent, kcalled, logs, other>>

\* line 153: self.code = code
Ic153_NoCode ==
    /\ pc = "ic153"
    /\ pc' = "ic154"
    /\ UNCHANGED envVars /\ UNCHANGED attrVars
    /\ UNCHANGED <<op, st0, ret, r, l_code, l_now, polled, sigsent, kcalled, logs, other>>
Ic153 ==
    /\ pc = "ic153"
    /\ code' = l_code
    /\ pc' = "ic154"
    /\ UNCHANGED envVars
    /\ UNCHANGED <<status, e_codes, s_time, e_time, m_time, stdout, stderr>>
    /\ UNCHANGED <<op, st0, ret, r, l_code, l_now, polled, sigsent, kcalled, logs, other>>

\* line 154: self.status = _S_COMPLETE
Ic154 ==
    /\ pc = "ic154"
    /\ status' = _S_COMPLETE
    /\ pc' = "ic155"
    /\ UNCHANGED envVars
    /\ UNCHANGED <<code, e_codes, s_time, e_time, m_time, stdout, stderr>>
    /\ UNCHANGED <<op, st0, ret, r, l_code, l_now, polled, sigsent, kcalled, logs, other>>

\* line 155: self.e_time = time.time()
Ic155 ==
    /\ pc = "ic155"
    /\ e_time' = <<now>>
    /\ pc' = "ic156"
    /\ UNCHANGED envVars
    /\ UNCHANGED <<status, code, e_codes, s_time, m_time, stdout, stderr>>
    /\ UNCHANGED <<op, st0, ret, r, l_code, l_now, polled, sigsent, kcalled, logs, other>>

\* line 156: self.stdout, self.stderr = self._process.communicate()
Ic156 ==
    /\ pc = "ic156"
    /\ ProcessCommunicate
    /\ pc' = "ic163"
    /\ UNCHANGED <<now, x_code, x_time, out, err, grp>>
    /\ UNCHANGED <<status, code, e_codes, s_time, e_time, m_time>>
    /\ UNCHANGED <<op, st0, ret, r, l_code, l_now, polled, sigsent, kcalled, logs, other>>

\* line 157: elif time.time() - self.s_time > self.m_time
Ic157 ==
    /\ pc = "ic157"
    /\ l_now' = <<now>>
    /\ pc' = IF DeadlineExceeded(now) THEN "ic158" ELSE "ic163"
    /\ UNCHANGED envVars /\ UNCHANGED attrVars
    /\ UNCHANGED <<op, st0, ret, r, l_code, polled, sigsent, kcalled, logs, other>>

\* line 158: self._process.kill()
Ic158 ==
    /\ pc = "ic158"
    /\ ProcessKill
    /\ sigsent' = TRUE
    /\ pc' = "ic159"
    /\ UNCHANGED <<now, out, err, grp>> /\ UNCHANGED attrVars
    /\ UNCHANGED <<op, st0, ret, r, l_code, l_now, polled, kcalled, logs, other>>

\* line 159: self._process.wait()
Ic159 ==
    /\ pc = "ic159"
    /\ ProcessWait
    /\ pc' = "ic160"
    /\ UNCHANGED <<now, x_code, x_time, out, err, grp>> /\ UNCHANGED attrVars
    /\ UNCHANGED <<op, st0, ret, r, l_code, l_now, polled, sigsent, kcalled, logs, other>>

\* line 160: self.status = _S_TIMEOUT
Ic160 ==
    /\ pc = "ic160"
    /\ status' = _S_TIMEOUT
    /\ pc' = "ic161"
    /\ UNCHANGED envVars
    /\ UNCHANGED <<code, e_codes, s_time, e_time, m_time, stdout, stderr>>
    /\ UNCHANGED <<op, st0, ret, r, l_code, l_now, polled, sigsent, kcalled, logs, other>>

\* line 161: self.e_time = time.time()
Ic161 ==
    /\ pc = "ic161"
    /\ e_time' = <<now>>
    /\ pc' = "ic162"
    /\ UNCHANGED envVars
    /\ UNCHANGED <<status, code, e_codes, s_time, m_time, stdout, stderr>>
    /\ UNCHANGED <<op, st0, ret, r, l_code, l_now, polled, sigsent, kcalled, logs, other>>

\* line 162: self.stdout, self.stderr = self._process.communicate()
Ic162 ==
    /\ pc = "ic162"
    /\ ProcessCommunicate
    /\ pc' = "ic163"
    /\ UNCHANGED <<now, x_code, x_time, out, err, grp>>
    /\ UNCHANGED <<status, code, e_codes, s_time, e_time, m_time>>
    /\ UNCHANGED <<op, st0, ret, r, l_code, l_now, polled, sigsent, kcalled, logs, other>>

\* lines 163-164: if self.status != _S_RUN: self._log()
Ic163 ==
    /\ pc = "ic163"
    /\ logs' = IF status # _S_RUN THEN logs + 1 ELSE logs
    /\ pc' = "ic165"
    /\ UNCHANGED envVars /\ UNCHANGED attrVars
    /\ UNCHANGED <<op, st0, ret, r, l_code, l_now, polled, sigsent, kcalled, other>>

\* line 165: return self.status != _S_RUN
Ic165 ==
    /\ pc = "ic165"
    /\ r' = (status # _S_RUN)
    /\ pc' = "ret"
    /\ UNCHANGED envVars /\ UNCHANGED attrVars
    /\ UNCHANGED <<op, st0, ret, l_code, l_now, polled, sigsent, kcalled, logs, other>>

\* is_complete() called directly: its result goes to the caller
RetIsComplete ==
    /\ pc = "ret" /\ op = "is_complete"
    /\ ret' = IF r THEN "True" ELSE "False"
    /\ pc' = "idle"
    /\ UNCHANGED envVars /\ UNCHANGED attrVars
    /\ UNCHANGED <<op, st0, r, l_code, l_now, polled, sigsent, kcalled, logs, other>>

\* ------------------------------------------------------ Bash.is_timeout
\* line 169
RetIsTimeout ==
    /\ pc = "ret" /\ op = "is_timeout"
    /\ ret' = IsTimeoutResult(r)
    /\ pc' = "idle"
    /\ UNCHANGED envVars /\ UNCHANGED attrVars
    /\ UNCHANGED <<op, st0, r, l_code, l_now, polled, sigsent, kcalled, logs, other>>

\* ------------------------------------------------------ Bash.check_code
\* line 173
RetCheckCode ==
    /\ pc = "ret" /\ op = "check_code"
    /\ ret' = CheckCodeResult(r)
    /\ pc' = "idle"
    /\ UNCHANGED envVars /\ UNCHANGED attrVars
    /\ UNCHANGED <<op, st0, r, l_code, l_now, polled, sigsent, kcalled, logs, other>>

\* ------------------------------------------------------ Bash.kill
\* line 177: if not self.is_complete()
K177 ==
    /\ pc = "ret" /\ op = "kill"
    /\ IF KillGuard(r)
       THEN pc' = "k178" /\ ret' = ret
       ELSE pc' = "idle" /\ ret' = "None"
    /\ UNCHANGED envVars /\ UNCHANGED attrVars
    /\ UNCHANGED <<op, st0, r, l_code, l_now, polled, sigsent, kcalled, logs, other>>

\* line 178: self._process.kill()
K178 ==
    /\ pc = "k178"
    /\ ProcessKill
    /\ sigsent' = TRUE
    /\ pc' = "k179"
    /\ UNCHANGED <<now, out, err, grp>> /\ UNCHANGED attrVars
    /\ UNCHANGED <<op, st0, ret, r, l_code, l_now, polled, kcalled, logs, other>>

\* line 179: self._process.wait()
K179 ==
    /\ pc = "k179"
    /\ ProcessWait
    /\ pc' = "k180"
    /\ UNCHANGED <<now, x_code, x_time, out, err, grp>> /\ UNCHANGED attrVars
    /\ UNCHANGED <<op, st0, ret, r, l_code, l_now, polled, sigsent, kcalled, logs, other>>

\* line 180: self.e_time = time.time()
K180 ==
    /\ pc = "k180"
    /\ e_time' = <<now>>
    /\ pc' = "k181"
    /\ UNCHANGED envVars
    /\ UNCHANGED <<status, code, e_codes, s_time, m_time, stdout, stderr>>
    /\ UNCHANGED <<op, st0, ret, r, l_code, l_now, polled, sigsent, kcalled, logs, other>>

\* line 181: self.stdout, self.stderr = self._process.communicate()
K181 ==
    /\ pc = "k181"
    /\ ProcessCommunicate
    /\ pc' = "k182"
    /\ UNCHANGED <<now, x_code, x_time, out, err, grp>>
    /\ UNCHANGED <<status, code, e_codes, s_time, e_time, m_time>>
    /\ UNCHANGED <<op, st0, ret, r, l_code, l_now, polled, sigsent, kcalled, logs, other>>

\* line 182: self.status = _S_KILL, and kill returns None
K182 ==
    /\ pc = "k182"
    /\ status' = _S_KILL
    /\ ret' = "None"
    /\ pc' = "idle"
    /\ UNCHANGED envVars
    /\ UNCHANGED <<code, e_codes, s_time, e_time, m_time, stdout, stderr>>
    /\ UNCHANGED <<op, st0, r, l_code, l_now, polled, sigsent, kcalled, logs, other>>

\* ------------------------------------------------------ run
\* line 210: while process.is_complete() is False
RunLoops_Never(rr) == FALSE
RunLoops(rr) == rr = FALSE

\* a long stretch of wall-clock time passes at once
Leap ==
    /\ now <= MaxClock
    /\ now' = now + _L_MAX_TIME
    /\ UNCHANGED <<child, x_code, x_time, out, err, grp>>
    /\ UNCHANGED attrVars /\ UNCHANGED callVars

\* lines 207-210: run() constructs the instance and makes its first
\* is_complete() call
Run207 ==
    /\ pc = "new"
    /\ \E m \in MTimeArgs, ec \in ECodeArgs :
          /\ m_time' = StoredMTime(m)
          /\ e_codes' = ec
    /\ child' = "alive"
    /\ stdout' = 0 /\ stderr' = 0
    /\ code' = <<>>
    /\ s_time' = now
    /\ e_time' = <<>>
    /\ status' = _S_RUN
    /\ op' = "run"
    /\ st0' = _S_RUN
    /\ pc' = "ic149"
    /\ UNCHANGED <<now, x_code, x_time, out, err, grp>>
    /\ UNCHANGED <<ret, r, l_code, l_now, polled, sigsent, kcalled, logs, other>>

\* lines 210-212: loop while is_complete() returned False, else return
\* the instance
Run210 ==
    /\ pc = "ret" /\ op = "run"
    /\ IF RunLoops(r)
       THEN pc' = "ic149" /\ ret' = ret
       ELSE pc' = "idle" /\ ret' = "Bash"
    /\ UNCHANGED envVars /\ UNCHANGED attrVars
    /\ UNCHANGED <<op, st0, r, l_code, l_now, polled, sigsent, kcalled, logs, other>>

\* ------------------------------------------------------ a second thread
\* Two threads share the instance (no lock in lines 141-182).  The
\* interpreter runs one thread at a time and may switch between any two
\* statements: the running thread's position and locals are swapped with
\* the suspended thread's.
Switch ==
    /\ status # NoInstance
    /\ other' = [pc |-> pc, op |-> op, st0 |-> st0, ret |-> ret, r |-> r,
                 l_code |-> l_code, l_now |-> l_now, polled |-> polled]
    /\ pc' = other.pc /\ op' = other.op /\ st0' = other.st0
    /\ ret' = other.ret /\ r' = other.r
    /\ l_code' = other.l_code /\ l_now' = other.l_now
    /\ polled' = other.polled
    /\ UNCHANGED envVars /\ UNCHANGED attrVars
    /\ UNCHANGED <<sigsent, kcalled, logs>>

\* the wall clock advances, over the shorter span explored with two threads
TickShort ==
    /\ now < MaxClockThreads
    /\ now' = now + 1
    /\ UNCHANGED <<child, x_code, x_time, out, err, grp>>
    /\ UNCHANGED attrVars /\ UNCHANGED callVars

\* ------------------------------------------------------ specification
Next ==
    \/ Tick \/ ChildWriteOut \/ ChildWriteErr \/ ChildExit
    \/ Construct \/ ConstructSpawnFails \/ ConstructWriteFails
    \/ CallIsComplete \/ CallIsTimeout \/ CallCheckCode \/ CallKill
    \/ Ic149 \/ Ic151 \/ Ic153 \/ Ic154 \/ Ic155 \/ Ic156
    \/ Ic157 \/ Ic158 \/ Ic159 \/ Ic160 \/ Ic161 \/ Ic162
    \/ Ic163 \/ Ic165
    \/ RetIsComplete \/ RetIsTimeout \/ RetCheckCode
    \/ K177 \/ K178 \/ K179 \/ K180 \/ K181 \/ K182

Spec == Init /\ [][Next]_vars

\* the caller uses run() only
NextRun ==
    \/ Tick \/ Leap \/ ChildWriteOut \/ ChildWriteErr \/ ChildExit
    \/ Run207
    \/ Ic149 \/ Ic151 \/ Ic153 \/ Ic154 \/ Ic155 \/ Ic156
    \/ Ic157 \/ Ic158 \/ Ic159 \/ Ic160 \/ Ic161 \/ Ic162
    \/ Ic163 \/ Ic165
    \/ Run210

SpecRun == Init /\ [][NextRun]_vars

\* the command forks descendants; the caller polls and kills
NextGroup ==
    \/ Tick \/ ChildExit \/ ChildFork \/ DescExit
    \/ Construct
    \/ CallIsComplete \/ CallKill
    \/ Ic149 \/ Ic151 \/ Ic153 \/ Ic154 \/ Ic155 \/ Ic156
    \/ Ic157 \/ Ic158 \/ Ic159 \/ Ic160 \/ Ic161 \/ Ic162
    \/ Ic163 \/ Ic165
    \/ RetIsComplete
    \/ K177 \/ K178 \/ K179 \/ K180 \/ K181 \/ K182

SpecGroup == Init /\ [][NextGroup]_vars

\* two threads call is_complete() and kill() on the same instance
NextThreads ==
    \/ TickShort \/ ChildExit
    \/ Construct
    \/ Switch
    \/ CallIsComplete \/ CallKill
    \/ Ic149 \/ Ic151 \/ Ic153 \/ Ic154 \/ Ic155 \/ Ic156
    \/ Ic157 \/ Ic158 \/ Ic159 \/ Ic160 \/ Ic161 \/ Ic162
    \/ Ic163 \/ Ic165
    \/ RetIsComplete
    \/ K177 \/ K178 \/ K179 \/ K180 \/ K181 \/ K182

SpecThreads == Init /\ [][NextThreads]_vars

TypeOK ==
    /\ now \in 0..MaxClock
    /\ child \in {"unspawned", "alive", "zombie", "reaped"}
    /\ status \in {NoInstance, _S_RUN} \cup Terminal
    /\ ret \in {"True", "False", "None", "Bash"}
    /\ grp \in 0..MaxDesc
    /\ r \in BOOLEAN /\ polled \in BOOLEAN
    /\ logs \in Nat

\* ------------------------------------------------------ derived facts

\* the child was still running when its deadline elapsed
Overran == x_time # <<>> /\ x_time[1] - s_time > m_time

\* the child exited on its own, no later than its deadline
ExitedInTime ==
    /\ x_code # <<>> /\ x_code[1] # -SIGKILL
    /\ x_time[1] - s_time <= m_time

\* the poll of the deciding is_complete() found the child running and the
\* clock reading of line 157 was more than m_time after s_time
PolledPastDeadline ==
    /\ l_code = <<>>
    /\ l_now # <<>>
    /\ l_now[1] - s_time > m_time

BoolStr(b) == IF b THEN "True" ELSE "False"

\* ------------------------------------------------------ properties

\* C1: once status is completed, timeout or killed, no step of any method,
\* of the child or of the clock changes it again.
C1_TerminalAbsorbing ==
    [][(status \in Terminal) => (status' = status)]_vars

\* kill() has returned on an instance that was already completed or timed out
C1_Witness ==
    /\ pc = "idle" /\ op = "kill"
    /\ st0 \in {_S_COMPLETE, _S_TIMEOUT} /\ status = st0

\* C2 (as stated): a kill() entered with status running returns with status
\* killed.
C2_KillAlwaysKilled ==
    (pc = "idle" /\ op = "kill" /\ st0 = _S_RUN) => status = _S_KILL

\* C2 (amended): a kill() entered with status running returns with a
\* terminal status: completed when its is_complete() poll found the child
\* exited, timeout when that poll found it running past the deadline, and
\* killed otherwise.
C2_KillEndsTerminal ==
    (pc = "idle" /\ op = "kill" /\ st0 = _S_RUN) =>
        /\ status \in Terminal
        /\ (status = _S_COMPLETE) <=> (l_code # <<>>)
        /\ (status = _S_TIMEOUT) <=> PolledPastDeadline
        /\ (status = _S_KILL) <=> (l_code = <<>> /\ ~PolledPastDeadline)

\* kill() entered while running has returned with status killed
C2_Witness == pc = "idle" /\ op = "kill" /\ st0 = _S_RUN /\ status = _S_KILL

\* C3: never more than one log record, and exactly one whenever a method
\* has returned with the instance in a terminal state.
C3_LoggedOnce ==
    /\ logs <= 1
    /\ (pc = "idle" /\ status \in Terminal) => logs = 1

\* C4: the stored m_time of a constructed instance lies in [0, _L_MAX_TIME].
C4_MTimeInRange ==
    status # NoInstance => (0 <= m_time /\ m_time <= _L_MAX_TIME)

C6_Idempotent ==
    [][(op = "is_complete" /\ st0 \in Terminal /\ pc # "idle") =>
          /\ UNCHANGED <<status, code, e_time, stdout, stderr, logs, child>>
          /\ ~polled'
          /\ (pc' = "idle" => ret' = "True")]_vars

\* a repeated is_complete() has returned
C6_Witness ==
    pc = "idle" /\ op = "is_complete" /\ st0 \in Terminal /\ ret = "True"

\* C7 (as stated): if the child was still running when its deadline elapsed
\* and kill() was never called, the final status is timeout.  Stated for
\* deadlines inside [0, _L_MAX_TIME], where the deadline is a real one.
C7_OverrunEndsTimeout ==
    (/\ pc = "idle" /\ status \in Terminal /\ ~kcalled /\ Overran
     /\ 0 <= m_time /\ m_time <= _L_MAX_TIME) =>
        status = _S_TIMEOUT

\* C7 (amended): with kill() never called, the final status is timeout
\* exactly when the deciding is_complete() polled the child as running and
\* then read the clock past the deadline; otherwise it is completed.
C7_TimeoutIffPolledPastDeadline ==
    (status \in Terminal /\ ~kcalled) =>
        /\ (status = _S_TIMEOUT) <=> PolledPastDeadline
        /\ (status = _S_COMPLETE) <=> (l_code # <<>>)

\* an overrunning child has been timed out
C7_Witness ==
    pc = "idle" /\ ~kcalled /\ Overran /\ status = _S_TIMEOUT

\* C8: whenever status is timeout, _process.kill() has been called, the
\* child is dead and reaped, and e_time, set by the time the call returns,
\* is at least m_time after s_time.
C8_TimeoutReaped ==
    status = _S_TIMEOUT =>
        /\ sigsent
        /\ child = "reaped"
        /\ e_time # <<>> => e_time[1] - s_time >= m_time
        /\ pc \in {"ret", "idle"} => e_time # <<>>

\* is_complete() has returned True from its timeout branch
C8_Witness ==
    /\ pc = "idle" /\ op = "is_complete" /\ st0 = _S_RUN
    /\ status = _S_TIMEOUT /\ ret = "True" /\ x_code = <<-SIGKILL>>

\* C9: if the child exited on its own within its deadline and kill() was
\* never called, the final status is completed, code is the child's exit
\* status and e_time >= s_time.
C9_InTimeEndsCompleted ==
    (pc = "idle" /\ status \in Terminal /\ ~kcalled /\ ExitedInTime) =>
        /\ status = _S_COMPLETE
        /\ code = x_code
        /\ e_time # <<>> /\ e_time[1] >= s_time

\* C10 (as stated): check_code() entered with status running returns None;
\* entered on a terminal instance it returns (code in e_codes).
C10_NoneWhenCalledRunning ==
    (pc = "idle" /\ op = "check_code") =>
        /\ st0 = _S_RUN => ret = "None"
        /\ st0 \in Terminal => ret = BoolStr(CodeInECodes)

\* C10 (amended): check_code() returns None exactly when status is still
\* running once its is_complete() check is done; when the instance is
\* terminal by then, it returns (code in e_codes).
C10_NoneIffStillRunning ==
    (pc = "idle" /\ op = "check_code") =>
        /\ status = _S_RUN => ret = "None"
        /\ status \in Terminal => ret = BoolStr(CodeInECodes)

\* a check_code() entered while running has made the transition itself and
\* reported an unexpected result
C10_Witness ==
    /\ pc = "idle" /\ op = "check_code" /\ st0 = _S_RUN
    /\ status \in Terminal /\ ret = "False"


\* C11: whenever run() has returned, the instance is completed or timed
\* out, e_time is set and exactly one log record has been written.
C11_RunReturnsTerminal ==
    (pc = "idle" /\ op = "run") =>
        /\ status \in {_S_COMPLETE, _S_TIMEOUT}
        /\ e_time # <<>>
        /\ logs = 1

\* run() has returned after timing out a child that never exited
C11_Witness ==
    /\ pc = "idle" /\ op = "run" /\ ret = "Bash"
    /\ status = _S_TIMEOUT /\ x_code = <<-SIGKILL>>

\* C12: run() does not wait longer than the upper limit: a deadline test
\* inside run() that reads the clock more than _L_MAX_TIME after s_time
\* ends the wait.
C12_RunWaitsAtMostLimit ==
    (op = "run" /\ pc = "ic163" /\ l_now # <<>>
        /\ l_now[1] - s_time > _L_MAX_TIME) => status # _S_RUN


\* C13: while status is running, e_time is None and the captured stdout
\* and stderr are empty, also in the middle of is_complete() and kill().
C13_UnsetWhileRunning ==
    status = _S_RUN => (e_time = <<>> /\ stdout = 0 /\ stderr = 0)

\* C14 (as stated): whenever status is killed, the child was ended by
\* kill()'s signal, not by its own exit, and its deadline had not elapsed
\* when the signal was delivered.
C14_KilledBeforeExitOrDeadline ==
    status = _S_KILL =>
        /\ x_code = <<-SIGKILL>>
        /\ ~(x_time[1] - s_time > m_time)

\* C14 (amended): whenever status is killed, kill() was called, the
\* is_complete() check it made polled the child as running and read the
\* clock within the deadline, and _process.kill() and wait() have run;
\* the child may have exited, or the deadline elapsed, after that check.
C14_KilledAfterCheck ==
    status = _S_KILL =>
        /\ kcalled /\ sigsent /\ child = "reaped"
        /\ l_code = <<>>
        /\ l_now # <<>> /\ ~(l_now[1] - s_time > m_time)
        /\ code = <<>>

\* kill() has ended with status killed although the child had exited on
\* its own between the check of line 177 and the signal of line 178
C14_Witness ==
    /\ pc = "idle" /\ op = "kill" /\ status = _S_KILL
    /\ x_code # <<>> /\ x_code[1] \in ExitCodes

\* C15: e_time is written only once status is terminal, and the output is
\* drained only once status is terminal and e_time is set.
C15_StatusThenETimeThenOutput ==
    [][/\ (e_time = <<>> /\ e_time' # <<>>) => (status \in Terminal)
       /\ (pc \in {"ic156", "ic162", "k181"} /\ pc' # pc) =>
              (status \in Terminal /\ e_time # <<>>)]_vars

\* C16 (as stated): with m_time = 0, an is_complete() entered while
\* running whose poll finds the child running ends in timeout and
\* returns True.
C16_ZeroAlwaysTimesOut ==
    (pc = "idle" /\ op = "is_complete" /\ st0 = _S_RUN
        /\ m_time = 0 /\ l_code = <<>>) =>
        (status = _S_TIMEOUT /\ ret = "True")

\* C16 (amended): with m_time = 0, such a call ends in timeout and
\* returns True when the clock reading of line 157 is later than s_time;
\* when the reading equals s_time it returns False and status stays
\* running.
C16_ZeroTimesOutAfterSTime ==
    (pc = "idle" /\ op = "is_complete" /\ st0 = _S_RUN
        /\ m_time = 0 /\ l_code = <<>>) =>
        /\ l_now # <<>>
        /\ l_now[1] > s_time => (status = _S_TIMEOUT /\ ret = "True")
        /\ l_now[1] = s_time => (status = _S_RUN /\ ret = "False")
        /\ l_now[1] >= s_time

\* with m_time = 0, the first poll read the clock at s_time and did not
\* time out
C16_Witness ==
    /\ pc = "idle" /\ op = "is_complete" /\ st0 = _S_RUN
    /\ m_time = 0 /\ l_code = <<>> /\ l_now = <<s_time>>
    /\ status = _S_RUN /\ ret = "False"


\* C19: a constructor that returned leaves status running with code and
\* e_time None; a constructor that raised BashError leaves no child
\* running or unreaped.
C19_RaiseLeavesNoChild ==
    /\ (pc = "idle" /\ op = "none") =>
           (status = _S_RUN /\ code = <<>> /\ e_time = <<>>)
    /\ pc = "raised" => child \in {"unspawned", "reaped"}


C18_RaceIsCheckThenAct ==
    [][/\ (status \in Terminal /\ status' # status) => (st0 = _S_RUN)
       /\ (logs >= 1 /\ logs' > logs) => (st0 = _S_RUN)
       /\ logs' <= 2]_vars

\* one thread's kill() has replaced the completed status, set together
\* with code by the other thread's is_complete(), by killed
C18_Witness ==
    /\ status = _S_KILL /\ code # <<>> /\ logs = 1
    /\ pc = "idle" /\ op = "kill" /\ other.op = "is_complete"

====
